---- MODULE Spec2Model ----
(***************************************************************************)
(* Model of src/src/OperationsCollector.ts: BaseOperationsCollector and    *)
(* its notice-prefixed subclass OperationsCollector.                       *)
(*                                                                         *)
(* Objects the collector stores live in three heaps (sequences indexed by  *)
(* reference), so that sharing of one object between two places is         *)
(* visible: option descriptors, field descriptors and the displayOptions   *)
(* objects the fields point to.  Objects allocated by a call that stores   *)
(* nothing are unreachable and are not kept.                               *)
(***************************************************************************)
EXTENDS Integers, Sequences, FiniteSets, TLC

\* ------------------------------------------------------------------ bounds
MaxVisits   == 2   \* calls of visitOperation in one behaviour
MaxOpTags   == 1   \* tags of an operation in a sequence of visits
MaxTags     == 2   \* tags of an operation handled on its own
MaxParams   == 3   \* parameters of an operation handled on its own
MaxBody     == 3   \* body fields of an operation handled on its own
MaxMutations == 1  \* downstream in-place changes in one behaviour

\* ------------------------------------------------------- collaborators
\* The collaborators are external: their results are inputs of the model.
Throw  == "<throws>"

PostPets == [method |-> "post", pattern |-> "/pets"]
GetPet   == [method |-> "get", pattern |-> "/pets/{id}"]
Contexts == {PostPets, GetPet}

\* String.prototype.toUpperCase on the methods used here.
toUpperCase(s) ==
    CASE s = "get"  -> "GET"
      [] s = "post" -> "POST"
      [] OTHER      -> s

\* replacePathVarsToParameter (./n8n/utils): path placeholders become the
\* templated-expression form.
replacePathVarsToParameter(uri) ==
    CASE uri = "/pets/{id}" -> "/pets/{{$parameter[\"id\"]}}"
      [] OTHER              -> uri

\* IResourceParser.value({name: tag}); the tag "bad" makes it raise, and two
\* different tags resolve to the same identifier.
Tags == {"pet", "pets", "store", "bad"}
resourceParserValue(tag) ==
    CASE tag = "pet"   -> "Pet"
      [] tag = "pets"  -> "Pet"
      [] tag = "store" -> "Store"
      [] OTHER         -> Throw

\* IOperationParser.name/value/action/description: the four results and the
\* derivation that raises, if any.
NamerFaults == {"name", "value", "action", "description"}
NamerOk ==
    { [name |-> "Pets", value |-> "Pets", action |-> "act",
       description |-> "desc", throws |-> "none"],
      [name |-> "Get Pet", value |-> "getPet", action |-> "act",
       description |-> "desc", throws |-> "none"] }
DefaultNamer ==
    [name |-> "Pets", value |-> "Pets", action |-> "act",
     description |-> "desc", throws |-> "none"]
NamerFailing == { [DefaultNamer EXCEPT !.throws = f] : f \in NamerFaults }

\* ------------------------------------------------------ field descriptors
\* An INodeProperties value.  displayOptions is a reference into showHeap,
\* 0 while the property is unset; options holds nested descriptors by value
\* (a nested descriptor has exactly one owner); typeOptions is the theme of
\* typeOptions, "none" when there is none.
Field(name, displayName, type, required, options) ==
    [name |-> name, displayName |-> displayName, type |-> type,
     required |-> required, options |-> options, typeOptions |-> "none",
     displayOptions |-> 0]

ParamName(i) == "p" \o ToString(i)
BodyName(i)  == "b" \o ToString(i)

\* N8NINodeProperties.fromParameters / fromRequestBody results: the i-th
\* derived field, with its required flag.
fromParameters(flags) ==
    [i \in 1..Len(flags) |-> Field(ParamName(i), ParamName(i), "string", flags[i], <<>>)]
fromRequestBody(flags) ==
    [i \in 1..Len(flags) |-> Field(BodyName(i), BodyName(i), "string", flags[i], <<>>)]

Range(s) == { s[i] : i \in 1..Len(s) }

\* Sequences of required flags of length at most n.
FlagSeqs(n) == UNION { [1..k -> BOOLEAN] : k \in 0..n }
TagSeqs(n)  == UNION { [1..k -> Tags] : k \in 0..n }

\* An operation together with what each collaborator answers for it:
\*   shouldSkip  "yes" | "no" | Throw
\*   namer       a NamerOk or NamerFailing record
\*   parameters  absent | fromParameters raises | the flags of the derived fields
\*   requestBody fromRequestBody raises | the flags of the derived fields
\*   tags        absent | the tags
\*   thrown      the kind of value a raising collaborator throws
\*   logger      whether logger.info and logger.warn return or raise
ParamsAbsent == [kind |-> "absent", flags |-> <<>>]
ParamsThrow  == [kind |-> "throws", flags |-> <<>>]
ParamsOf(flags) == [kind |-> "list", flags |-> flags]
BodyThrow    == [kind |-> "throws", flags |-> <<>>]
BodyOf(flags) == [kind |-> "list", flags |-> flags]
TagsAbsent   == [kind |-> "absent", list |-> <<>>]
TagsOf(list) == [kind |-> "list", list |-> list]

\* What a collaborator that raises throws, by what the template literal
\* `${error}` does with it:
\*   "Error"                it is converted to a string (an Error, a string,
\*                          null, a plain object);
\*   "Symbol"               the conversion raises a TypeError or an Error (a
\*                          Symbol, Object.create(null), an object whose
\*                          toString returns an object or throws an Error);
\*   "ToStringThrowsSymbol" the conversion raises a value that in turn has
\*                          no string conversion (an object whose toString
\*                          throws a Symbol).
ThrownKinds == {"Error", "Symbol", "ToStringThrowsSymbol"}

\* `${error}`: "string" when the value is converted, else the kind of the
\* value the conversion raises.
templateLiteral(error) ==
    CASE error = "Error"                -> "string"
      [] error = "Symbol"               -> "Error"
      [] error = "ToStringThrowsSymbol" -> "Symbol"

\* pino.Logger: whether info and warn return or raise.
LoggerOk == [info |-> "ok", warn |-> "ok"]
Loggers  == [info : {"ok", Throw}, warn : {"ok", Throw}]

\* thrown is the kind of value every collaborator of the operation that
\* raises throws, the logger included.
Op(skip, namer, parameters, requestBody, tags, ctx) ==
    [shouldSkip |-> skip, namer |-> namer, parameters |-> parameters,
     requestBody |-> requestBody, tags |-> tags, ctx |-> ctx,
     thrown |-> "Error", logger |-> LoggerOk]
DefaultOp == Op("no", DefaultNamer, ParamsAbsent, BodyOf(<<>>), TagsOf(<<"pet">>), PostPets)

\* ------------------------------------------------------------ parseFields
SelectRequired(s) == SelectSeq(s, LAMBDA f : f.required)
SelectOptional(s) == SelectSeq(s, LAMBDA f : ~f.required)

Msg == "There's no body available for request, kindly use HTTP Request node to send body"

additionalFieldsOption(optionalParameters) ==
    Field("additionalQueryParameters", "Additional Query Parameters",
          "collection", FALSE, optionalParameters)
additionalBodyFieldsOption(optionalBodyFields) ==
    Field("additionalBodyFields", "Additional Body Fields",
          "collection", FALSE, optionalBodyFields)
advisoryNotice(ctx) ==
    Field("operation",
          toUpperCase(ctx.method) \o " " \o ctx.pattern \o "<br/><br/>" \o Msg,
          "notice", FALSE, <<>>)

\* Mutant of parameterFields: a single optional parameter gets no collection.
parameterFields_dropsSingleOptional(allParameters) ==
    SelectRequired(allParameters) \o
    (IF Len(SelectOptional(allParameters)) > 1
        THEN <<additionalFieldsOption(SelectOptional(allParameters))>> ELSE <<>>)

\* The part of parseFields that handles operation.parameters.
parameterFields(allParameters) ==
    LET requiredParameters == SelectRequired(allParameters)
        optionalParameters == SelectOptional(allParameters)
    IN  requiredParameters \o
        (IF Len(optionalParameters) > 0
            THEN <<additionalFieldsOption(optionalParameters)>> ELSE <<>>)

\* Mutant of bodyFieldsPart: the collection is pushed before the required
\* body fields.
bodyFieldsPart_collectionFirst(bodyFields) ==
    IF Len(bodyFields) > 0
    THEN (IF Len(SelectOptional(bodyFields)) > 0
             THEN <<additionalBodyFieldsOption(SelectOptional(bodyFields))>> ELSE <<>>)
         \o SelectRequired(bodyFields)
    ELSE <<>>

\* The part of parseFields inside the try block.
bodyFieldsPart(bodyFields) ==
    IF Len(bodyFields) > 0
    THEN LET requiredBodyFields == SelectRequired(bodyFields)
             optionalBodyFields == SelectOptional(bodyFields)
         IN  requiredBodyFields \o
             (IF Len(optionalBodyFields) > 0
                 THEN <<additionalBodyFieldsOption(optionalBodyFields)>> ELSE <<>>)
    ELSE <<>>

\* The body of a catch block: `${error}` raises when the caught value has no
\* string conversion, then logger.warn may raise; nothing is logged in
\* either case.
catchAndWarn(caught, op) ==
    IF templateLiteral(caught) # "string"
    THEN [raised |-> TRUE, thrown |-> templateLiteral(caught), log |-> <<>>]
    ELSE IF op.logger.warn = Throw
    THEN [raised |-> TRUE, thrown |-> op.thrown, log |-> <<>>]
    ELSE [raised |-> FALSE, thrown |-> "none", log |-> <<"warn">>]

\* The catch block of parseFields: the advisory notice is pushed after the
\* conversion of the error and the warning.
bodyCatch(op, c, fromP, calls) ==
    IF c.raised
    THEN [threw |-> TRUE, thrown |-> c.thrown, fields |-> <<>>, calls |-> calls,
          log |-> <<>>, bodyFailed |-> TRUE]
    ELSE [threw |-> FALSE, thrown |-> "none",
          fields |-> fromP \o <<advisoryNotice(op.ctx)>>, calls |-> calls,
          log |-> c.log, bodyFailed |-> TRUE]

\* parseFields: [threw, thrown, fields, calls, log, bodyFailed].
\* fromParameters raising is not caught here; fromRequestBody raising is
\* caught and replaced by the notice, unless the catch block itself raises.
parseFields(op) ==
    IF op.parameters.kind = "throws"
    THEN [threw |-> TRUE, thrown |-> op.thrown, fields |-> <<>>,
          calls |-> <<"fromParameters">>, log |-> <<>>, bodyFailed |-> FALSE]
    ELSE LET hasParams == op.parameters.kind # "absent"
             fromP == IF hasParams THEN parameterFields(fromParameters(op.parameters.flags))
                      ELSE <<>>
             callsP == IF hasParams THEN <<"fromParameters">> ELSE <<>>
         IN  IF op.requestBody.kind = "throws"
             THEN bodyCatch(op, catchAndWarn(op.thrown, op), fromP,
                            callsP \o <<"fromRequestBody">>)
             ELSE [threw |-> FALSE, thrown |-> "none",
                   fields |-> fromP \o bodyFieldsPart(fromRequestBody(op.requestBody.flags)),
                   calls |-> callsP \o <<"fromRequestBody">>,
                   log |-> <<>>, bodyFailed |-> FALSE]

\* --------------------------------------------------------- parseOperation
NamerOrder == <<"name", "value", "action", "description">>
NamerIndex(f) == CHOOSE i \in 1..4 : NamerOrder[i] = f

\* The namer derivations consulted, up to and including the one that raises.
namerCalls(namer) ==
    IF namer.throws = "none" THEN NamerOrder
    ELSE SubSeq(NamerOrder, 1, NamerIndex(namer.throws))

Option(op) ==
    [name |-> op.namer.name, value |-> op.namer.value,
     action |-> op.namer.action, description |-> op.namer.description,
     routing |-> [request |-> [method |-> toUpperCase(op.ctx.method),
                               url |-> "=" \o replacePathVarsToParameter(op.ctx.pattern)]]]
NoOption ==
    [name |-> "", value |-> "", action |-> "", description |-> "",
     routing |-> [request |-> [method |-> "", url |-> ""]]]

\* BaseOperationsCollector.parseOperation
withFields(op, pf) ==
    [threw |-> pf.threw, thrown |-> pf.thrown,
     option |-> IF pf.threw THEN NoOption ELSE Option(op),
     fields |-> pf.fields,
     calls |-> namerCalls(op.namer) \o pf.calls,
     log |-> pf.log, bodyFailed |-> pf.bodyFailed]
BaseParseOperation(op) ==
    IF op.namer.throws # "none"
    THEN [threw |-> TRUE, thrown |-> op.thrown, option |-> NoOption,
          fields |-> <<>>, calls |-> namerCalls(op.namer), log |-> <<>>,
          bodyFailed |-> FALSE]
    ELSE withFields(op, parseFields(op))

infoNotice(ctx) ==
    [Field("operation", toUpperCase(ctx.method) \o " " \o ctx.pattern,
           "notice", FALSE, <<>>) EXCEPT !.typeOptions = "info"]

\* OperationsCollector.parseOperation: the base result with the endpoint
\* notice put in front.
unshiftNotice(result, notice) ==
    IF result.threw THEN result
    ELSE [result EXCEPT !.fields = <<notice>> \o @]
VariantParseOperation(op) ==
    unshiftNotice(BaseParseOperation(op), infoNotice(op.ctx))

\* Dynamic dispatch of this.parseOperation.
parseOperation(isVariant, op) ==
    IF isVariant THEN VariantParseOperation(op) ELSE BaseParseOperation(op)

\* ------------------------------------------------------------------ state
VARIABLES
    _fields,            \* this._fields: references into fieldHeap
    optionsByResource,  \* this.optionsByResource: <<[resource, options]>>,
                        \* options being references into optionHeap
    bindings,           \* this.bindings: log context of the current call
    isVariant,          \* TRUE for OperationsCollector, FALSE for the base class
    optionHeap, fieldHeap, showHeap,
    visits,             \* calls of visitOperation so far
    mutations,          \* in-place changes made by the consumer so far
    last                \* the last call: what it was given and what it did

vars == <<_fields, optionsByResource, bindings, isVariant,
          optionHeap, fieldHeap, showHeap, visits, mutations, last>>

\* --------------------------------------------------- OptionsByResourceMap
\* A map from resource to option sequence in insertion order.
size(map) == Len(map)
has(map, resource) == \E i \in 1..Len(map) : map[i].resource = resource
indexOf(map, resource) == CHOOSE i \in 1..Len(map) : map[i].resource = resource
add(map, resource, option) ==
    IF has(map, resource)
    THEN [map EXCEPT ![indexOf(map, resource)].options = Append(@, option)]
    ELSE Append(map, [resource |-> resource, options |-> <<option>>])

\* ------------------------------------------------------ the resource loop
\* Mutant of cloneDeep: the same objects are handed back instead of copies.
cloneDeep_shared(heap, refs) == [heap |-> heap, refs |-> refs]

\* lodash.cloneDeep(operationFields): fresh copies of the referenced fields.
cloneDeep(heap, refs) ==
    [heap |-> heap \o [i \in 1..Len(refs) |-> heap[refs[i]]],
     refs |-> [i \in 1..Len(refs) |-> Len(heap) + i]]

\* addDisplayOption: one new displayOptions object, assigned to every field.
addDisplayOption(fHeap, sHeap, refs, resource, operation) ==
    LET displayOptions == [show |-> [resource |-> <<resource>>,
                                     operation |-> <<operation>>]]
        ref == Len(sHeap) + 1
        Refs == { refs[i] : i \in 1..Len(refs) }
    IN  [fieldHeap |-> [r \in 1..Len(fHeap) |->
                           IF r \in Refs THEN [fHeap[r] EXCEPT !.displayOptions = ref]
                           ELSE fHeap[r]],
         showHeap |-> Append(sHeap, displayOptions)]

\* The name the loop passes to addDisplayOption.
operationNameOf(option) == option.name

\* Mutant of pushCopy: the tagged copy is put in front of the list.
pushCopy_prepends(st, cl, ad, resourceName, optRef) ==
    [st EXCEPT !.fieldHeap = ad.fieldHeap,
               !.showHeap = ad.showHeap,
               !.optionsByResource = add(@, resourceName, optRef),
               !._fields = cl.refs \o @]

\* One iteration of the loop over resources: cl is the clone made by
\* cloneDeep, ad the heaps after addDisplayOption.
pushCopy(st, cl, ad, resourceName, optRef) ==
    [st EXCEPT !.fieldHeap = ad.fieldHeap,
               !.showHeap = ad.showHeap,
               !.optionsByResource = add(@, resourceName, optRef),
               !._fields = @ \o cl.refs]
tagCopy(st, cl, resourceName, optRef) ==
    pushCopy(st, cl,
             addDisplayOption(cl.heap, st.showHeap, cl.refs, resourceName,
                              operationNameOf(st.optionHeap[optRef])),
             resourceName, optRef)
visitResource(st, resourceName, optRef, operationFields) ==
    tagCopy(st, cloneDeep(st.fieldHeap, operationFields), resourceName, optRef)

RECURSIVE visitResources(_, _, _, _)
visitResources(st, resources, optRef, operationFields) ==
    IF resources = <<>> THEN st
    ELSE visitResources(visitResource(st, Head(resources), optRef, operationFields),
                        Tail(resources), optRef, operationFields)

\* operation.tags.map(tag => resourceParser.value({name: tag}))
mapTags(tags) == [i \in 1..Len(tags) |-> resourceParserValue(tags[i])]
firstThrow(resources) ==
    IF \E i \in 1..Len(resources) : resources[i] = Throw
    THEN CHOOSE i \in 1..Len(resources) :
            /\ resources[i] = Throw
            /\ \A j \in 1..(i - 1) : resources[j] # Throw
    ELSE 0

\* ----------------------------------------------------------- visitOperation
State == [_fields |-> _fields, optionsByResource |-> optionsByResource,
          optionHeap |-> optionHeap, fieldHeap |-> fieldHeap, showHeap |-> showHeap]

\* What _visitOperation did: st is the collector when it returns or raises
\* (nothing is rolled back).
VisitResult(st) ==
    [threw |-> FALSE, thrown |-> "none", error |-> "none", skipped |-> FALSE, st |-> st,
     calls |-> <<"shouldSkip">>, log |-> <<>>, resources |-> <<>>,
     optRef |-> 0, operationFields |-> <<>>, bodyFailed |-> FALSE]

\* The loop of _visitOperation; the option and the derived fields are the
\* objects allocated by parseOperation.
registerAll(st, po, calls, resources) ==
    [VisitResult(st) EXCEPT
        !.st = visitResources(
                   [st EXCEPT !.optionHeap = Append(@, po.option),
                              !.fieldHeap = @ \o po.fields],
                   resources, Len(st.optionHeap) + 1,
                   [i \in 1..Len(po.fields) |-> Len(st.fieldHeap) + i]),
        !.calls = calls \o [i \in 1..Len(resources) |-> "resourceParser.value"],
        !.log = po.log, !.resources = resources,
        !.optRef = Len(st.optionHeap) + 1,
        !.operationFields = [i \in 1..Len(po.fields) |-> Len(st.fieldHeap) + i],
        !.bodyFailed = po.bodyFailed]

\* operation.tags!!.map(...) and the loop.
resolveAndRegister(st, po, calls, resources, k, thrown) ==
    IF k # 0
    THEN [VisitResult(st) EXCEPT
            !.threw = TRUE, !.thrown = thrown, !.error = "resourceParser.value",
            !.calls = calls \o [i \in 1..k |-> "resourceParser.value"],
            !.log = po.log, !.bodyFailed = po.bodyFailed]
    ELSE registerAll(st, po, calls, resources)

afterParse(st, po, op) ==
    IF po.threw
    THEN [VisitResult(st) EXCEPT !.threw = TRUE, !.thrown = po.thrown,
                                 !.error = po.calls[Len(po.calls)],
                                 !.calls = @ \o po.calls, !.log = po.log,
                                 !.bodyFailed = po.bodyFailed]
    ELSE IF op.tags.kind = "absent"
    THEN \* undefined.map(...): a TypeError
         [VisitResult(st) EXCEPT !.threw = TRUE, !.thrown = "Error", !.error = "tags",
                                 !.calls = @ \o po.calls, !.log = po.log,
                                 !.bodyFailed = po.bodyFailed]
    ELSE resolveAndRegister(st, po, <<"shouldSkip">> \o po.calls,
                            mapTags(op.tags.list), firstThrow(mapTags(op.tags.list)),
                            op.thrown)

\* Mutant of _visitOperation: the answer of the Skip Policy is ignored.
_visitOperation_ignoresSkip(st, variant, op) ==
    IF op.shouldSkip = Throw
    THEN [VisitResult(st) EXCEPT !.threw = TRUE, !.thrown = op.thrown,
                                 !.error = "shouldSkip"]
    ELSE afterParse(st, parseOperation(variant, op), op)

_visitOperation(st, variant, op) ==
    IF op.shouldSkip = Throw
    THEN [VisitResult(st) EXCEPT !.threw = TRUE, !.thrown = op.thrown,
                                 !.error = "shouldSkip"]
    ELSE IF op.shouldSkip = "yes"
    THEN IF op.logger.info = Throw
         THEN [VisitResult(st) EXCEPT !.threw = TRUE, !.thrown = op.thrown,
                                      !.error = "logger.info"]
         ELSE [VisitResult(st) EXCEPT !.skipped = TRUE, !.log = <<"info">>]
    ELSE afterParse(st, parseOperation(variant, op), op)

\* The try/catch of visitOperation around _visitOperation: what
\* _visitOperation raised is caught, and the catch block may raise in turn.
tryCatch(r, op) ==
    IF r.threw
    THEN [escaped |-> catchAndWarn(r.thrown, op).raised,
          thrown |-> catchAndWarn(r.thrown, op).thrown,
          log |-> r.log \o catchAndWarn(r.thrown, op).log]
    ELSE [escaped |-> FALSE, thrown |-> "none", log |-> r.log]

NoResult == <<>>
Last(kind) ==
    [kind |-> kind, outcome |-> "none", error |-> "none", escaped |-> FALSE,
     calls |-> <<>>, log |-> <<>>, resources |-> <<>>, optRef |-> 0,
     operationFields |-> <<>>, bodyFailed |-> FALSE, shouldSkip |-> "no",
     parameters |-> ParamsAbsent, requestBody |-> BodyOf(<<>>), ctx |-> PostPets,
     thrown |-> "Error", logger |-> LoggerOk, raised |-> "none",
     resource |-> "", result |-> NoResult]

visitOperation(op) ==
    /\ \E r \in {_visitOperation(State, isVariant, op)} :
       LET c == tryCatch(r, op)
       IN  /\ bindings' = [pattern |-> op.ctx.pattern, method |-> op.ctx.method]
           /\ _fields' = r.st._fields
           /\ optionsByResource' = r.st.optionsByResource
           /\ optionHeap' = r.st.optionHeap
           /\ fieldHeap' = r.st.fieldHeap
           /\ showHeap' = r.st.showHeap
           /\ last' = [Last("visitOperation") EXCEPT
                          !.outcome = IF r.threw THEN "failed"
                                      ELSE IF r.skipped THEN "skipped" ELSE "ok",
                          !.error = r.error, !.escaped = c.escaped,
                          !.raised = c.thrown,
                          !.calls = r.calls, !.log = c.log,
                          !.resources = r.resources, !.optRef = r.optRef,
                          !.operationFields = r.operationFields,
                          !.bodyFailed = r.bodyFailed,
                          !.shouldSkip = op.shouldSkip,
                          !.parameters = IF r.threw \/ r.skipped THEN ParamsAbsent
                                         ELSE op.parameters,
                          !.requestBody = IF "fromRequestBody" \in Range(r.calls)
                                          THEN op.requestBody ELSE BodyOf(<<>>),
                          !.thrown = op.thrown, !.logger = op.logger]
    /\ visits' = visits + 1
    /\ UNCHANGED <<isVariant, mutations>>

\* _visitOperation called by the traversal directly (it is public): nothing
\* catches what it raises and this.bindings is not set.
DirectVisit(op) ==
    /\ \E r \in {_visitOperation(State, isVariant, op)} :
           /\ _fields' = r.st._fields
           /\ optionsByResource' = r.st.optionsByResource
           /\ optionHeap' = r.st.optionHeap
           /\ fieldHeap' = r.st.fieldHeap
           /\ showHeap' = r.st.showHeap
           /\ last' = [Last("_visitOperation") EXCEPT
                          !.outcome = IF r.threw THEN "failed"
                                      ELSE IF r.skipped THEN "skipped" ELSE "ok",
                          !.error = r.error, !.escaped = r.threw,
                          !.raised = r.thrown,
                          !.calls = r.calls, !.log = r.log,
                          !.resources = r.resources, !.optRef = r.optRef,
                          !.operationFields = r.operationFields,
                          !.bodyFailed = r.bodyFailed,
                          !.shouldSkip = op.shouldSkip,
                          !.parameters = IF r.threw \/ r.skipped THEN ParamsAbsent
                                         ELSE op.parameters,
                          !.requestBody = IF "fromRequestBody" \in Range(r.calls)
                                          THEN op.requestBody ELSE BodyOf(<<>>),
                          !.thrown = op.thrown, !.logger = op.logger]
    /\ visits' = visits + 1
    /\ UNCHANGED <<bindings, isVariant, mutations>>

\* --------------------------------------------------------------- getters
OperationSelector(resource, options) ==
    [displayName |-> "Operation", name |-> "operation", type |-> "options",
     noDataExpression |-> TRUE,
     displayOptions |-> [show |-> [resource |-> <<resource>>]],
     options |-> options, default |-> ""]

\* Mutant of operations: a map with a single resource is taken for empty.
operations_raisesOnOne(map) ==
    IF size(map) <= 1
    THEN [raised |-> TRUE, value |-> <<>>]
    ELSE [raised |-> FALSE,
          value |-> [i \in 1..Len(map) |->
                        OperationSelector(map[i].resource, map[i].options)]]

\* get operations: raises on an empty map, else one selector per entry, whose
\* options is the map's own option array.
operations(map) ==
    IF size(map) = 0
    THEN [raised |-> TRUE, value |-> <<>>]
    ELSE [raised |-> FALSE,
          value |-> [i \in 1..Len(map) |->
                        OperationSelector(map[i].resource, map[i].options)]]

\* get fields: a new array with the same elements.
fields(list) == [i \in 1..Len(list) |-> list[i]]

ReadOperations ==
    /\ last.kind # "operations"
    /\ LET r == operations(optionsByResource)
       IN  last' = [Last("operations") EXCEPT
                       !.outcome = IF r.raised THEN "raised" ELSE "returned",
                       !.escaped = r.raised,
                       !.raised = IF r.raised THEN "Error" ELSE "none",
                       !.result = r.value]
    /\ UNCHANGED <<_fields, optionsByResource, bindings, isVariant,
                   optionHeap, fieldHeap, showHeap, visits, mutations>>

ReadFields ==
    /\ last.kind # "fields"
    /\ last' = [Last("fields") EXCEPT !.outcome = "returned", !.result = fields(_fields)]
    /\ UNCHANGED <<_fields, optionsByResource, bindings, isVariant,
                   optionHeap, fieldHeap, showHeap, visits, mutations>>

\* ------------------------------------------------------------ operations
ParamOutcomes(n) == {ParamsAbsent} \cup { ParamsOf(f) : f \in FlagSeqs(n) }
BodyOutcomes(n)  == {BodyThrow} \cup { BodyOf(f) : f \in FlagSeqs(n) }
TagOutcomes(n)   == {TagsAbsent} \cup { TagsOf(t) : t \in TagSeqs(n) }

\* An operation without parameters and without body fields: its field list
\* holds the notices only.  A collaborator that is not consulted, because an
\* earlier one skipped the operation or raised, has its default answer.
ThinOps(maxTags) ==
    { [DefaultOp EXCEPT !.shouldSkip = s] : s \in {"yes", Throw} }
    \cup
    { [DefaultOp EXCEPT !.namer = n] : n \in NamerFailing }
    \cup
    { [DefaultOp EXCEPT !.namer = n, !.parameters = ParamsThrow] : n \in NamerOk }
    \cup
    { Op("no", x[1], ParamsAbsent, x[2], x[3], PostPets) :
        x \in NamerOk \X {BodyThrow, BodyOf(<<>>)} \X TagOutcomes(maxTags) }

\* Whether a collaborator of the operation raises, so that a catch block
\* runs (or, for a direct call, the error leaves _visitOperation).
Raising(o) ==
    \/ o.shouldSkip = Throw
    \/ o.shouldSkip = "yes" /\ o.logger.info = Throw
    \/ /\ o.shouldSkip = "no"
       /\ \/ o.namer.throws # "none"
          \/ o.parameters.kind = "throws"
          \/ o.requestBody.kind = "throws"
          \/ o.tags.kind = "absent"
          \/ "bad" \in Range(o.tags.list)

\* The operations of ops with every kind of thrown value and every logger;
\* what is thrown and what the logger does is left at its default where
\* the operation does not get there.
WithFaults(ops) ==
    { o \in { [x[1] EXCEPT !.thrown = x[2], !.logger = x[3]] :
                x \in ops \X ThrownKinds \X Loggers } :
        /\ o.shouldSkip # "yes" => o.logger.info = "ok"
        /\ ~Raising(o) => (o.thrown = "Error" /\ o.logger.warn = "ok") }

\* Operations that raise in the Skip Policy, the Namer, the body derivation
\* or the Resource Identifier, and a skipped one.
FaultOps ==
    WithFaults(
        { [DefaultOp EXCEPT !.shouldSkip = s] : s \in {"yes", Throw} }
        \cup
        { [DefaultOp EXCEPT !.namer.throws = "name"],
          [DefaultOp EXCEPT !.requestBody = BodyThrow],
          [DefaultOp EXCEPT !.tags = TagsOf(<<"bad">>)] })

\* The operations visited in a sequence.
VisitOps == ThinOps(MaxOpTags) \cup FaultOps

\* The operations handled on their own: more parameters and body fields.
FieldOps ==
    { [DefaultOp EXCEPT !.parameters = x[1], !.requestBody = x[2], !.ctx = x[3]] :
        x \in (ParamOutcomes(MaxParams) \cup {ParamsThrow})
              \X BodyOutcomes(MaxBody) \X Contexts }
ParseOps == WithFaults(FieldOps)
SingleOps ==
    { Op("no", x[1], x[2], x[3], x[4], x[5]) :
        x \in NamerOk \X (ParamOutcomes(MaxParams) \cup {ParamsThrow})
              \X BodyOutcomes(MaxBody) \X TagOutcomes(MaxTags) \X Contexts }

Init ==
    /\ _fields = <<>>
    /\ optionsByResource = <<>>
    /\ bindings = [pattern |-> "", method |-> ""]
    /\ isVariant \in BOOLEAN
    /\ optionHeap = <<>>
    /\ fieldHeap = <<>>
    /\ showHeap = <<>>
    /\ visits = 0
    /\ mutations = 0
    /\ last = Last("init")

\* A traversal: visitOperation for one operation after another, the getters
\* read at any point.
Visit == visits < MaxVisits /\ \E op \in VisitOps : visitOperation(op)

Next ==
    \/ Visit
    \/ ReadOperations
    \/ ReadFields

Spec == Init /\ [][Next]_vars

\* One operation handled by a new collector: parseFields called on it, or
\* the operation visited.
ParseFields(op) ==
    /\ \E pf \in {parseFields(op)} :
         last' = [Last("parseFields") EXCEPT
                     !.parameters = op.parameters, !.requestBody = op.requestBody,
                     !.ctx = op.ctx, !.thrown = op.thrown, !.logger = op.logger,
                     !.escaped = pf.threw, !.raised = pf.thrown,
                     !.outcome = IF pf.threw THEN "raised" ELSE "returned",
                     !.calls = pf.calls, !.log = pf.log,
                     !.bodyFailed = pf.bodyFailed, !.result = pf.fields]
    /\ UNCHANGED <<_fields, optionsByResource, bindings, isVariant,
                   optionHeap, fieldHeap, showHeap, visits, mutations>>

ParseOnce == last.kind = "init" /\ \E op \in ParseOps : ParseFields(op)
VisitOnce == last.kind = "init" /\ \E op \in SingleOps \cup FaultOps : visitOperation(op)
DirectVisitOnce ==
    last.kind = "init" /\ \E op \in WithFaults(ThinOps(MaxTags)) : DirectVisit(op)

NextSingle ==
    \/ ParseOnce
    \/ VisitOnce
    \/ DirectVisitOnce

SpecSingle == Init /\ [][NextSingle]_vars

\* In-place changes a consumer of the output makes to an object it reached
\* through the entries of one resource: an option of the resource's
\* sequence, a field shown for the resource, or that field's displayOptions.
ResourceOfField(i) == showHeap[fieldHeap[_fields[i]].displayOptions].show.resource[1]

MutateOption ==
    /\ mutations < MaxMutations
    /\ \E i \in 1..Len(optionsByResource) :
         \E j \in 1..Len(optionsByResource[i].options) :
            /\ optionHeap' = [optionHeap EXCEPT
                                 ![optionsByResource[i].options[j]].description = "changed"]
            /\ last' = [Last("mutate") EXCEPT !.resource = optionsByResource[i].resource]
    /\ mutations' = mutations + 1
    /\ UNCHANGED <<_fields, optionsByResource, bindings, isVariant,
                   fieldHeap, showHeap, visits>>

MutateField ==
    /\ mutations < MaxMutations
    /\ \E i \in 1..Len(_fields) :
            /\ fieldHeap' = [fieldHeap EXCEPT ![_fields[i]].displayName = "changed"]
            /\ last' = [Last("mutate") EXCEPT !.resource = ResourceOfField(i)]
    /\ mutations' = mutations + 1
    /\ UNCHANGED <<_fields, optionsByResource, bindings, isVariant,
                   optionHeap, showHeap, visits>>

MutateDisplayOptions ==
    /\ mutations < MaxMutations
    /\ \E i \in 1..Len(_fields) :
            /\ showHeap' = [showHeap EXCEPT
                               ![fieldHeap[_fields[i]].displayOptions].show.operation =
                                   <<"changed">>]
            /\ last' = [Last("mutate") EXCEPT !.resource = ResourceOfField(i)]
    /\ mutations' = mutations + 1
    /\ UNCHANGED <<_fields, optionsByResource, bindings, isVariant,
                   optionHeap, fieldHeap, visits>>

\* One operation visited by a new collector, then changes by the consumer.
VisitAlias ==
    last.kind = "init" /\ \E op \in ThinOps(MaxTags) \cup FaultOps : visitOperation(op)

NextAlias ==
    \/ VisitAlias
    \/ MutateOption
    \/ MutateField
    \/ MutateDisplayOptions

SpecAlias == Init /\ [][NextAlias]_vars

\* ------------------------------------------------------------------ views
\* The stored descriptors with their references followed.
NoShow == [show |-> [resource |-> <<>>, operation |-> <<>>]]
FieldView(ref) ==
    [fieldHeap[ref] EXCEPT !.displayOptions = IF @ = 0 THEN NoShow ELSE showHeap[@]]
FieldsView == [i \in 1..Len(_fields) |-> FieldView(_fields[i])]
OptionsView(refs) == [j \in 1..Len(refs) |-> optionHeap[refs[j]]]
AggView ==
    [i \in 1..Len(optionsByResource) |->
        [resource |-> optionsByResource[i].resource,
         options |-> OptionsView(optionsByResource[i].options)]]

IsPrefix(s, t) == Len(s) <= Len(t) /\ \A i \in 1..Len(s) : s[i] = t[i]

\* Number of option entries held by the map, over all resources.
OptionCount(map) ==
    Cardinality(UNION { { <<i, j>> : j \in 1..Len(map[i].options) } : i \in 1..Len(map) })
\* Number of entries of the map that are the option ref.
Occurrences(map, ref) ==
    Cardinality(UNION { { <<i, j>> : j \in { k \in 1..Len(map[i].options) :
                                                 map[i].options[k] = ref } } :
                        i \in 1..Len(map) })

VisitFailed  == last.kind = "visitOperation" /\ last.outcome = "failed"
VisitOk      == last.kind = "visitOperation" /\ last.outcome = "ok"

\* ------------------------------------------------------------------ C1
\* C1: when a collaborator raises during visitOperation (the Skip Policy, a
\* Namer derivation, the parameter derivation, the Resource Identifier, or
\* the tag list is missing), the call returns normally, the Global Field
\* List and the Aggregator are as they were before the call, and a visit
\* that follows a failed one and completes registers its option and fields
\* in full.  Stated for a logger that returns: the error is the
\* collaborator's, not the logger's.
C1_FailureIsolated ==
    [][ /\ (/\ VisitFailed'
            /\ last'.logger = LoggerOk
            /\ last'.error \in {"shouldSkip", "name", "value", "action", "description",
                                 "fromParameters", "tags", "resourceParser.value"}) =>
            /\ ~last'.escaped
            /\ _fields' = _fields
            /\ optionsByResource' = optionsByResource
            /\ FieldsView' = FieldsView
            /\ AggView' = AggView
        /\ (VisitFailed /\ VisitOk') =>
            /\ Len(_fields') =
                   Len(_fields) + Len(last'.resources) * Len(last'.operationFields)
            /\ OptionCount(optionsByResource') =
                   OptionCount(optionsByResource) + Len(last'.resources)
      ]_vars

\* ------------------------------------------------------------------ C7
\* C7: when the Skip Policy answers true, visitOperation emits nothing: the
\* Aggregator (its resources and their options) and the Global Field List
\* are unchanged, and no other collaborator is consulted; the skip is logged
\* at info level where the logger returns.
C7_SkipEmitsNothing ==
    [][ (last'.kind = "visitOperation" /\ last'.shouldSkip = "yes") =>
            /\ last'.calls = <<"shouldSkip">>
            /\ last'.logger.info = "ok" =>
                  /\ last'.outcome = "skipped"
                  /\ ~last'.escaped
                  /\ last'.log = <<"info">>
            /\ _fields' = _fields
            /\ FieldsView' = FieldsView
            /\ size(optionsByResource') = size(optionsByResource)
            /\ AggView' = AggView
      ]_vars

\* An operation was skipped by a collector that already holds fields.
C7_Witness ==
    /\ last.kind = "visitOperation"
    /\ last.outcome = "skipped"
    /\ Len(_fields) > 0
    /\ size(optionsByResource) > 0

\* ------------------------------------------------------------------ C10
\* C10: the Global Field List and every per-resource option sequence are
\* append-only: each step leaves the earlier entries, their contents and the
\* order of resources in place, and the getters change neither collection.
C10_AppendOnly ==
    [][ /\ IsPrefix(_fields, _fields')
        /\ IsPrefix(FieldsView, FieldsView')
        /\ Len(optionsByResource) <= Len(optionsByResource')
        /\ \A i \in 1..Len(optionsByResource) :
              /\ optionsByResource'[i].resource = optionsByResource[i].resource
              /\ IsPrefix(optionsByResource[i].options, optionsByResource'[i].options)
              /\ IsPrefix(AggView[i].options, AggView'[i].options)
        /\ last'.kind \in {"fields", "operations"} =>
              /\ _fields' = _fields /\ FieldsView' = FieldsView
              /\ optionsByResource' = optionsByResource /\ AggView' = AggView
      ]_vars

\* The fields getter was read after two visits had each appended fields to
\* the list and an option to the same resource.
C10_Witness ==
    /\ last.kind = "fields"
    /\ visits = 2
    /\ Len(last.result) >= 2
    /\ Len(optionsByResource) = 1
    /\ Len(optionsByResource[1].options) = 2
    /\ optionsByResource[1].options[1] # optionsByResource[1].options[2]

\* ------------------------------------------------------------------ C6
\* C6: reading operations raises exactly when the Aggregator holds no
\* resource; otherwise it returns one selector per resource of the
\* Aggregator, in the Aggregator's order, shown only for that resource, whose
\* choices are that resource's option sequence.
C6_OperationsView ==
    last.kind = "operations" =>
        /\ last.escaped <=> size(optionsByResource) = 0
        /\ last.escaped <=> OptionCount(optionsByResource) = 0
        /\ ~last.escaped =>
            /\ Len(last.result) = Len(optionsByResource)
            /\ \A i \in 1..Len(last.result) :
                  /\ last.result[i].type = "options"
                  /\ last.result[i].displayOptions.show.resource =
                         <<optionsByResource[i].resource>>
                  /\ last.result[i].options = optionsByResource[i].options
                  /\ OptionsView(last.result[i].options) = AggView[i].options
                  /\ Len(last.result[i].options) > 0
            /\ \A i, j \in 1..Len(last.result) :
                  i # j => last.result[i].displayOptions # last.result[j].displayOptions

\* operations was read from a collector holding two resources, the second
\* one seen first being "Store".
C6_Witness ==
    /\ last.kind = "operations"
    /\ ~last.escaped
    /\ Len(last.result) = 2
    /\ last.result[1].displayOptions.show.resource = <<"Store">>
    /\ last.result[2].displayOptions.show.resource = <<"Pet">>

\* ------------------------------------------------------------------ C3
\* Index in the new Global Field List of field k of the copy made for the
\* j-th resource by the visit just done, nF being the length of a copy.
CopyIndex(j, k, nF) == Len(_fields) + (j - 1) * nF + k

\* What C3 says of a completed visit apart from the resource values: the
\* option is added once per tag, N copies of the field list are appended,
\* and all new fields carry the same operation value.
C3_Fanout ==
    LET N  == Len(last'.resources)
        nF == Len(last'.operationFields)
    IN  /\ OptionCount(optionsByResource') = OptionCount(optionsByResource) + N
        /\ Occurrences(optionsByResource', last'.optRef) = N
        /\ Occurrences(optionsByResource, last'.optRef) = 0
        /\ Len(_fields') = Len(_fields) + N * nF
        /\ \A j \in 1..N : \A k \in 1..nF :
              /\ [fieldHeap'[_fields'[CopyIndex(j, k, nF)]] EXCEPT !.displayOptions = 0]
                   = [fieldHeap'[last'.operationFields[k]] EXCEPT !.displayOptions = 0]
              /\ FieldsView'[CopyIndex(j, k, nF)].displayOptions.show.operation
                   = FieldsView'[CopyIndex(1, 1, nF)].displayOptions.show.operation

\* C3 as claimed: a completed visit of an operation with N tags (repeated
\* tags and tags resolving to one identifier included) adds the option N
\* times and appends N copies of the field list, whose resource values are
\* pairwise distinct and whose operation value is the same.
C3_DistinctResources ==
    [][ VisitOk' =>
          /\ C3_Fanout
          /\ LET N  == Len(last'.resources)
                 nF == Len(last'.operationFields)
             IN  \A j1, j2 \in 1..N : \A k1, k2 \in 1..nF :
                   j1 # j2 =>
                     FieldsView'[CopyIndex(j1, k1, nF)].displayOptions.show.resource
                       # FieldsView'[CopyIndex(j2, k2, nF)].displayOptions.show.resource
      ]_vars

\* C3 as amended: a completed visit of an operation with N tags adds the
\* option N times, once per tag under the identifier the tag resolves to, and
\* appends N copies of the field list; the j-th copy carries the identifier
\* of the j-th tag as its resource value and all carry the same operation
\* value, so two copies differ in resource value exactly when their tags
\* resolve to different identifiers.
C3_CopyPerTag ==
    [][ VisitOk' =>
          /\ C3_Fanout
          /\ LET N  == Len(last'.resources)
                 nF == Len(last'.operationFields)
             IN  /\ \A j \in 1..N : \A k \in 1..nF :
                       FieldsView'[CopyIndex(j, k, nF)].displayOptions.show.resource
                         = <<last'.resources[j]>>
                 /\ \A i \in 1..Len(optionsByResource') :
                       LET r == optionsByResource'[i].resource
                           before == IF has(optionsByResource, r)
                                     THEN Len(optionsByResource[indexOf(optionsByResource, r)].options)
                                     ELSE 0
                       IN  Len(optionsByResource'[i].options) =
                             before + Cardinality({ j \in 1..N : last'.resources[j] = r })
      ]_vars

\* A visit completed for an operation whose two tags resolve to the same
\* identifier and whose field list holds three fields.
C3_Witness ==
    /\ VisitOk
    /\ Len(last.resources) = 2
    /\ last.resources[1] = last.resources[2]
    /\ Len(last.operationFields) = 3
    /\ Len(optionsByResource) = 1
    /\ Len(_fields) = 6

\* ------------------------------------------------------------------ C2
\* C2: every field a visit appends to the Global Field List carries the
\* visibility condition {resource: [R], operation: [V]}, R an identifier
\* resolved from a tag of the operation and V the value of its option.
C2_VisibilityIsOptionValue ==
    [][ VisitOk' =>
          \A i \in (Len(_fields) + 1)..Len(_fields') :
             LET show == FieldsView'[i].displayOptions.show
             IN  /\ Len(show.resource) = 1
                 /\ show.resource[1] \in Range(last'.resources)
                 /\ show.operation = <<optionHeap'[last'.optRef].value>>
      ]_vars

\* ------------------------------------------------------------------ C4
\* Occurrences of a descriptor named n in a field list: as a top-level entry,
\* and nested in the options of a top-level entry.
TopPlaces(n, list) == { k \in 1..Len(list) : list[k].name = n }
NestedPlaces(n, list) ==
    UNION { { <<k, m>> : m \in { x \in 1..Len(list[k].options) :
                                     list[k].options[x].name = n } } :
            k \in 1..Len(list) }
\* The derived descriptor d is represented exactly once in list: at top
\* level, or nested in the collection named coll.
RepresentedOnce(d, list, coll) ==
    /\ Cardinality(TopPlaces(d.name, list)) + Cardinality(NestedPlaces(d.name, list)) = 1
    /\ \A k \in TopPlaces(d.name, list) : list[k] = d
    /\ \A p \in NestedPlaces(d.name, list) :
          /\ list[p[1]].name = coll
          /\ list[p[1]].type = "collection"
          /\ list[p[1]].options[p[2]] = d
AllRepresentedOnce(derived, list, coll) ==
    \A i \in 1..Len(derived) : RepresentedOnce(derived[i], list, coll)

ParsedFields == last.kind = "parseFields" /\ ~last.escaped

\* C4: the field list assembled by parseFields holds every derived parameter
\* field and every derived body field exactly once, at top level or nested in
\* the one collection of its source, whatever the mix of required and optional.
C4_EveryFieldOnce ==
    ParsedFields =>
        /\ AllRepresentedOnce(fromParameters(last.parameters.flags), last.result,
                              "additionalQueryParameters")
        /\ last.requestBody.kind = "list" =>
              AllRepresentedOnce(fromRequestBody(last.requestBody.flags), last.result,
                                 "additionalBodyFields")
        /\ Cardinality(TopPlaces("additionalQueryParameters", last.result)) <= 1
        /\ Cardinality(TopPlaces("additionalBodyFields", last.result)) <= 1

\* parseFields assembled an operation with required and optional parameters
\* and required and optional body fields.
C4_Witness ==
    /\ ParsedFields
    /\ last.parameters.kind = "list"
    /\ last.requestBody.kind = "list"
    /\ {TRUE, FALSE} \subseteq Range(last.parameters.flags)
    /\ {TRUE, FALSE} \subseteq Range(last.requestBody.flags)
    /\ Len(last.parameters.flags) = 3

\* ------------------------------------------------------------------ C8
IsParamName(n) == \E i \in 1..Len(last.parameters.flags) : n = ParamName(i)
IsBodyName(n)  == \E i \in 1..Len(last.requestBody.flags) : n = BodyName(i)
ParamIndex(n)  == CHOOSE i \in 1..Len(last.parameters.flags) : n = ParamName(i)
BodyIndex(n)   == CHOOSE i \in 1..Len(last.requestBody.flags) : n = BodyName(i)

\* Position of an entry in the order of C8: required parameter, parameter
\* collection, required body field, body collection, advisory field.
Rank(f) ==
    CASE f.type = "notice"                                              -> 5
      [] f.type = "collection" /\ f.name = "additionalQueryParameters" -> 2
      [] f.type = "collection" /\ f.name = "additionalBodyFields"      -> 4
      [] IsParamName(f.name)                                            -> 1
      [] IsBodyName(f.name)                                             -> 3
      [] OTHER                                                          -> 0
Ranked(list, n) == { k \in 1..Len(list) : Rank(list[k]) = n }

\* C8: the field list of parseFields is ordered: required parameters in
\* derived order, the parameter collection if an optional parameter exists,
\* required body fields in derived order, then the body collection if an
\* optional body field exists or, when body derivation failed, the advisory
\* field alone; optional fields keep their order inside their collection.
C8_Ordering ==
    ParsedFields =>
      LET list == last.result
          pflags == last.parameters.flags
          bflags == last.requestBody.flags
          bodyOk == last.requestBody.kind = "list"
      IN  /\ \A k \in 1..Len(list) : Rank(list[k]) # 0
          /\ \A a, b \in 1..Len(list) : a < b => Rank(list[a]) <= Rank(list[b])
          /\ \A a, b \in Ranked(list, 1) :
                a < b => ParamIndex(list[a].name) < ParamIndex(list[b].name)
          /\ \A a, b \in Ranked(list, 3) :
                a < b => BodyIndex(list[a].name) < BodyIndex(list[b].name)
          /\ \A k \in Ranked(list, 1) \cup Ranked(list, 3) : list[k].required
          /\ Cardinality(Ranked(list, 1)) = Cardinality({ i \in 1..Len(pflags) : pflags[i] })
          /\ Cardinality(Ranked(list, 2)) =
                (IF \E i \in 1..Len(pflags) : ~pflags[i] THEN 1 ELSE 0)
          /\ Cardinality(Ranked(list, 3)) =
                (IF bodyOk THEN Cardinality({ i \in 1..Len(bflags) : bflags[i] }) ELSE 0)
          /\ Cardinality(Ranked(list, 4)) =
                (IF bodyOk /\ \E i \in 1..Len(bflags) : ~bflags[i] THEN 1 ELSE 0)
          /\ Cardinality(Ranked(list, 5)) = (IF bodyOk THEN 0 ELSE 1)
          /\ \A k \in Ranked(list, 2) :
                /\ Len(list[k].options) = Cardinality({ i \in 1..Len(pflags) : ~pflags[i] })
                /\ \A a, b \in 1..Len(list[k].options) :
                      /\ ~list[k].options[a].required
                      /\ a < b => ParamIndex(list[k].options[a].name)
                                     < ParamIndex(list[k].options[b].name)
          /\ \A k \in Ranked(list, 4) :
                /\ Len(list[k].options) = Cardinality({ i \in 1..Len(bflags) : ~bflags[i] })
                /\ \A a, b \in 1..Len(list[k].options) :
                      /\ ~list[k].options[a].required
                      /\ a < b => BodyIndex(list[k].options[a].name)
                                     < BodyIndex(list[k].options[b].name)

\* parseFields assembled an operation with two required and one optional
\* body field after required and optional parameters.
C8_Witness ==
    /\ ParsedFields
    /\ last.requestBody.kind = "list"
    /\ last.requestBody.flags = <<FALSE, TRUE, TRUE>>
    /\ last.parameters.flags = <<FALSE, TRUE>>
    /\ Len(last.result) = 5

\* ------------------------------------------------------------------ C5
IsAdvisory(f) ==
    f.type = "notice" /\ f.typeOptions = "none" /\ f.name = "operation"
IsEndpointNotice(f) ==
    f.type = "notice" /\ f.typeOptions = "info" /\ f.name = "operation"
AdvisoryCount(list) == Cardinality({ k \in 1..Len(list) : IsAdvisory(list[k]) })
\* Entries derived from the request body, at top level or nested.
BodyDerivedCount(list) ==
    Cardinality({ k \in 1..Len(list) :
                    \/ list[k].name = "additionalBodyFields"
                    \/ \E i \in 1..(MaxBody + 1) : list[k].name = BodyName(i)
                    \/ \E m \in 1..Len(list[k].options) :
                          \E i \in 1..(MaxBody + 1) : list[k].options[m].name = BodyName(i) })
\* The copy of the field list appended for the j-th resource of the last
\* visit, displayOptions left out.
LastCopy(j) ==
    LET nF == Len(last.operationFields)
        start == Len(_fields) - (Len(last.resources) - j + 1) * nF
    IN  [k \in 1..nF |-> [fieldHeap[_fields[start + k]] EXCEPT !.displayOptions = 0]]

\* C5: when request-body derivation fails, parseFields does not raise and its
\* field list keeps the parameter-derived fields, holds exactly one advisory
\* field and no body-derived field; a visit of such an operation does not
\* fail on that account, registers the option under each resource, and each
\* copy of its field list is as just said, in the base collector and in the
\* notice-prefixed variant (whose copies begin with the endpoint notice).
\* Stated for a logger that returns.
C5_BodyFailureRecovered ==
    /\ (last.kind = "parseFields" /\ last.requestBody.kind = "throws"
            /\ last.parameters.kind # "throws" /\ last.logger = LoggerOk) =>
          /\ ~last.escaped
          /\ last.bodyFailed
          /\ AdvisoryCount(last.result) = 1
          /\ IsAdvisory(last.result[Len(last.result)])
          /\ BodyDerivedCount(last.result) = 0
          /\ AllRepresentedOnce(fromParameters(last.parameters.flags), last.result,
                                "additionalQueryParameters")
    /\ (last.kind = "visitOperation" /\ last.requestBody.kind = "throws"
            /\ last.logger = LoggerOk) =>
          /\ ~last.escaped
          /\ last.bodyFailed
          /\ last.error \in {"none", "tags", "resourceParser.value"}
          /\ last.error = "none" =>
                /\ last.outcome = "ok"
                /\ \A j \in 1..Len(last.resources) :
                      /\ has(optionsByResource, last.resources[j])
                      /\ last.optRef \in
                            Range(optionsByResource[
                                indexOf(optionsByResource, last.resources[j])].options)
                      /\ AdvisoryCount(LastCopy(j)) = 1
                      /\ BodyDerivedCount(LastCopy(j)) = 0
                      /\ AllRepresentedOnce(fromParameters(last.parameters.flags),
                                            LastCopy(j), "additionalQueryParameters")
                      /\ Len(LastCopy(j)) =
                            Len(parameterFields(fromParameters(last.parameters.flags)))
                            + 1 + (IF isVariant THEN 1 ELSE 0)
                      /\ isVariant => IsEndpointNotice(LastCopy(j)[1])

\* ------------------------------------------------------------------ C9
Resources == {"Pet", "Store"}
\* What is stored under a resource: its options, and the fields shown for it.
ResourceView(r) ==
    [options |-> IF has(optionsByResource, r)
                 THEN AggView[indexOf(optionsByResource, r)].options ELSE <<>>,
     fields |-> [i \in { k \in 1..Len(_fields) : ResourceOfField(k) = r } |->
                    FieldsView[i]]]

\* C9: what a visit stores under one resource shares no object with what it
\* stores under another: an in-place change to an option, a field or a
\* visibility condition reached through one resource leaves what is stored
\* under every other resource unchanged.
C9_IndependentAcrossResources ==
    [][ last'.kind = "mutate" =>
          \A r \in Resources \ {last'.resource} : ResourceView(r)' = ResourceView(r)
      ]_vars

====
